---- MODULE Spec2Model ----
(***************************************************************************)
(* A model of hieroglyph/potentials.py: the five optical-model potential   *)
(* formulas, the POTENTIALS registry and create_parameters.                *)
(*                                                                         *)
(* Python floats are modelled as decimal floating-point numbers with       *)
(* Digits significant digits (truncating), plus the special values the     *)
(* arithmetic of the program can produce: inf, nan, a complex result, and  *)
(* a raised exception, which every operation propagates from its operands  *)
(* in Python's left-to-right evaluation order.  The sign of zero is not    *)
(* modelled (the program never tests it).                                  *)
(***************************************************************************)
EXTENDS Integers, Sequences, FiniteSets, TLC

(* Number of significant decimal digits kept by the modelled floats. *)
Digits == 6

RECURSIVE Pow10(_)
Pow10(n) == IF n <= 0 THEN 1 ELSE 10 * Pow10(n - 1)

Top == Pow10(Digits)
Low == Pow10(Digits - 1)

Abs(n) == IF n < 0 THEN -n ELSE n
Sgn(n) == IF n < 0 THEN -1 ELSE IF n > 0 THEN 1 ELSE 0

(* ---------------------------------------------------------------------- *)
(* Float values                                                           *)
(* ---------------------------------------------------------------------- *)
Num(m, e)  == [k |-> "num", m |-> m, e |-> e, x |-> ""]
Zero       == Num(0, 0)
Inf(s)     == [k |-> "inf", m |-> s, e |-> 0, x |-> ""]
NaN        == [k |-> "nan", m |-> 0, e |-> 0, x |-> ""]
Complex    == [k |-> "complex", m |-> 0, e |-> 0, x |-> ""]
Raise(exc) == [k |-> "exc", m |-> 0, e |-> 0, x |-> exc]

IsExc(v)  == v.k = "exc"
IsNum(v)  == v.k = "num"
IsZero(v) == v.k = "num" /\ v.m = 0

(* A double's range: above about 1.8e308 a product or a sum becomes inf,   *)
(* below about 5e-324 it becomes 0.0.                                      *)
RECURSIVE NormAbs(_, _, _)
NormAbs(s, a, e) ==
    IF a >= Top THEN NormAbs(s, a \div 10, e + 1)
    ELSE IF a < Low THEN NormAbs(s, a * 10, e - 1)
    ELSE IF e + Digits - 1 > 308 THEN Inf(s)
    ELSE IF e + Digits - 1 < -324 THEN Zero
    ELSE Num(s * a, e)

Norm(m, e) == IF m = 0 THEN Zero ELSE NormAbs(Sgn(m), Abs(m), e)

(* A decimal literal m * 10^e of the source, and an int used as a float. *)
D(m, e)    == Norm(m, e)
FromInt(n) == Norm(n, 0)

FNeg(v) ==
    IF v.k = "num" THEN Num(-v.m, v.e)
    ELSE IF v.k = "inf" THEN Inf(-v.m)
    ELSE v

(* x + y on two finite numbers, the smaller one aligned with one guard digit. *)
AddNum(x, y) ==
    IF x.m = 0 THEN y
    ELSE IF y.m = 0 THEN x
    ELSE LET big   == IF x.e >= y.e THEN x ELSE y
             small == IF x.e >= y.e THEN y ELSE x
             d     == big.e - small.e
         IN  IF d > Digits + 1 THEN big
             ELSE Norm(big.m * 10 + Sgn(small.m) * ((Abs(small.m) * 10) \div Pow10(d)),
                       big.e - 1)

FAdd(x, y) ==
    IF IsExc(x) THEN x
    ELSE IF IsExc(y) THEN y
    ELSE IF x.k = "complex" \/ y.k = "complex" THEN Complex
    ELSE IF x.k = "nan" \/ y.k = "nan" THEN NaN
    ELSE IF x.k = "inf" /\ y.k = "inf" THEN (IF x.m = y.m THEN x ELSE NaN)
    ELSE IF x.k = "inf" THEN x
    ELSE IF y.k = "inf" THEN y
    ELSE AddNum(x, y)

FSub(x, y) == FAdd(x, FNeg(y))

(* floor(a * b / 10^(Digits-1)) for mantissas a, b, one digit of b at a time. *)
RECURSIVE MulLoop(_, _, _)
MulLoop(a, b, acc) ==
    IF b < 10 THEN acc \div 10 + a * b
    ELSE MulLoop(a, b \div 10, acc \div 10 + a * (b % 10))

FMul(x, y) ==
    IF IsExc(x) THEN x
    ELSE IF IsExc(y) THEN y
    ELSE IF x.k = "complex" \/ y.k = "complex" THEN Complex
    ELSE IF x.k = "nan" \/ y.k = "nan" THEN NaN
    ELSE IF x.k = "inf" \/ y.k = "inf"
         THEN (IF IsZero(x) \/ IsZero(y) THEN NaN ELSE Inf(Sgn(x.m) * Sgn(y.m)))
    ELSE IF x.m = 0 \/ y.m = 0 THEN Zero
    ELSE Norm(Sgn(x.m) * Sgn(y.m) * MulLoop(Abs(x.m), Abs(y.m), 0),
              x.e + y.e + Digits - 1)

(* Long division: n more quotient digits of r / b appended to q. *)
RECURSIVE DivLoop(_, _, _, _)
DivLoop(q, r, b, n) ==
    IF n = 0 THEN q
    ELSE DivLoop(q * 10 + (r * 10) \div b, (r * 10) % b, b, n - 1)

(* Python's float division: a zero divisor raises ZeroDivisionError. *)
FDiv(x, y) ==
    IF IsExc(x) THEN x
    ELSE IF IsExc(y) THEN y
    ELSE IF IsZero(y) THEN Raise("ZeroDivisionError")
    ELSE IF x.k = "complex" \/ y.k = "complex" THEN Complex
    ELSE IF x.k = "nan" \/ y.k = "nan" THEN NaN
    ELSE IF x.k = "inf" THEN (IF y.k = "inf" THEN NaN ELSE Inf(x.m * Sgn(y.m)))
    ELSE IF y.k = "inf" THEN Zero
    ELSE IF x.m = 0 THEN Zero
    ELSE Norm(Sgn(x.m) * Sgn(y.m)
                * DivLoop(Abs(x.m) \div Abs(y.m), Abs(x.m) % Abs(y.m), Abs(y.m), Digits),
              x.e - y.e - Digits)

(* x > y as Python compares floats: False when either is nan. *)
FGt(x, y) ==
    LET d == FSub(x, y)
    IN  IF x.k = "nan" \/ y.k = "nan" THEN FALSE
        ELSE IF x.k = "inf" /\ y.k = "inf" THEN x.m > y.m
        ELSE d.m > 0

(* ---------------------------------------------------------------------- *)
(* math.exp, math.sqrt and the ** operator                                *)
(* ---------------------------------------------------------------------- *)
One == D(1, 0)
Two == D(2, 0)

(* b^n for an int n >= 0 by repeated squaring. *)
RECURSIVE IntPow(_, _)
IntPow(b, n) ==
    IF n = 0 THEN One
    ELSE IF n % 2 = 0 THEN LET h == IntPow(b, n \div 2) IN FMul(h, h)
    ELSE FMul(b, IntPow(b, n - 1))

(* floor(v) as an int, for a finite v of modest size. *)
Floor(v) ==
    IF v.e >= 0 THEN v.m * Pow10(v.e)
    ELSE IF -v.e > Digits THEN (IF v.m < 0 THEN -1 ELSE 0)
    ELSE v.m \div Pow10(-v.e)

(* The Taylor series of exp(f), 0 <= f < 1, in Horner form from term n on. *)
RECURSIVE ExpSeries(_, _)
ExpSeries(f, n) ==
    IF n > 10 THEN One
    ELSE FAdd(One, FMul(FDiv(f, FromInt(n)), ExpSeries(f, n + 1)))

(* A result beyond the double range raises OverflowError. *)
Ranged(r) == IF r.k = "inf" THEN Raise("OverflowError") ELSE r

(* exp(v) = e^n * exp(v - n) for n = floor(v). *)
ExpSplit(v, n) ==
    FMul(IF n >= 0 THEN IntPow(D(2718282, -6), n) ELSE IntPow(D(3678794, -7), -n),
         ExpSeries(FSub(v, FromInt(n)), 1))

(* math.exp: OverflowError above the double range, 0.0 far below it. *)
FExp(v) ==
    IF IsExc(v) THEN v
    ELSE IF v.k = "complex" THEN Raise("TypeError")
    ELSE IF v.k = "nan" THEN NaN
    ELSE IF v.k = "inf" THEN (IF v.m > 0 THEN Inf(1) ELSE Zero)
    ELSE IF FGt(v, D(710, 0)) THEN Raise("OverflowError")
    ELSE IF FGt(D(-750, 0), v) THEN Zero
    ELSE Ranged(ExpSplit(v, Floor(v)))

(* v halved until it is at most 1.5, with the number of halvings. *)
RECURSIVE Halve(_, _)
Halve(v, c) ==
    IF FGt(v, D(15, -1)) THEN Halve(FMul(v, D(5, -1)), c + 1) ELSE <<v, c>>

(* sum over odd j >= n of t^j / j, t given as t^n and t^2, up to t^11. *)
RECURSIVE AtanhSeries(_, _, _)
AtanhSeries(tn, t2, n) ==
    IF n > 11 THEN Zero
    ELSE FAdd(FDiv(tn, FromInt(n)), AtanhSeries(FMul(tn, t2), t2, n + 2))

(* 2 * atanh(t) = ln((1 + t) / (1 - t)) *)
TwoAtanh(t) == FMul(Two, AtanhSeries(t, FMul(t, t), 1))

(* ln(w * 2^c * 10^ex) for w near 1, h = <<w, c>>. *)
LnParts(h, ex) ==
    FAdd(TwoAtanh(FDiv(FSub(h[1], One), FAdd(h[1], One))),
         FAdd(FMul(FromInt(h[2]), D(6931472, -7)),
              FMul(FromInt(ex), D(2302585, -6))))

(* The natural logarithm of a finite v > 0. *)
Ln(v) == LnParts(Halve(Num(v.m, 1 - Digits), 0), v.e + Digits - 1)

(* Newton's iteration for the square root, n steps from the guess g. *)
RECURSIVE Newton(_, _, _)
Newton(v, g, n) ==
    IF n = 0 THEN g
    ELSE Newton(v, FMul(D(5, -1), FAdd(g, FDiv(v, g))), n - 1)

(* math.sqrt: ValueError ("math domain error") on a negative argument. *)
FSqrt(v) ==
    IF IsExc(v) THEN v
    ELSE IF v.k = "complex" THEN Raise("TypeError")
    ELSE IF v.k = "nan" THEN NaN
    ELSE IF v.k = "inf" THEN (IF v.m > 0 THEN Inf(1) ELSE Raise("ValueError"))
    ELSE IF v.m < 0 THEN Raise("ValueError")
    ELSE IF v.m = 0 THEN Zero
    ELSE Newton(v, Norm(3, (v.e + Digits - 1) \div 2), 7)

IsIntVal(y) ==
    y.k = "num" /\ (y.e >= 0 \/ (-y.e < Digits /\ y.m % Pow10(-y.e) = 0))

IntOf(y) == IF y.e >= 0 THEN y.m * Pow10(y.e) ELSE y.m \div Pow10(-y.e)

(* x ** y for floats (an int operand is converted first): 0.0 to a        *)
(* negative power raises ZeroDivisionError, a negative base to a          *)
(* fractional power gives a complex number, an overflow raises            *)
(* OverflowError.  The exponents of the program are finite literals.      *)
FPow(x, y) ==
    IF IsExc(x) THEN x
    ELSE IF IsExc(y) THEN y
    ELSE IF x.k = "complex" \/ y.k = "complex" THEN Complex
    ELSE IF IsZero(y) THEN One
    ELSE IF x.k = "nan" \/ y.k # "num" THEN NaN
    ELSE IF x.m < 0 /\ ~IsIntVal(y) THEN Complex
    ELSE IF x.k = "inf"
         THEN (IF y.m < 0 THEN Zero
               ELSE IF x.m < 0 /\ IntOf(y) % 2 = 1 THEN Inf(-1) ELSE Inf(1))
    ELSE IF x.m = 0 THEN (IF y.m < 0 THEN Raise("ZeroDivisionError") ELSE Zero)
    ELSE IF IsIntVal(y)
         THEN Ranged(IF y.m >= 0 THEN IntPow(x, IntOf(y))
                     ELSE FDiv(One, IntPow(x, -IntOf(y))))
    ELSE FExp(FMul(y, Ln(x)))

(* ---------------------------------------------------------------------- *)
(* The statements and expressions of the formulas                         *)
(* ---------------------------------------------------------------------- *)
(* A formula is the sequence of its assignment statements, each with the  *)
(* expression it evaluates; Local is "name = e", Store is                 *)
(* "params[key] = e".  An int (zt, at, nt, an int literal) is held as the *)
(* float it is converted to when it meets a float; the ints of the        *)
(* program are far below 10^Digits, so they are held exactly.             *)
C(m, e)        == <<"lit", D(m, e)>>
Arg(name)      == <<"arg", name>>
Var(name)      == <<"var", name>>
Item(key)      == <<"item", key>>
Add(x, y)      == <<"add", x, y>>
Sub(x, y)      == <<"sub", x, y>>
Mul(x, y)      == <<"mul", x, y>>
Div(x, y)      == <<"div", x, y>>
Power(x, y)    == <<"pow", x, y>>
ExpOf(x)       == <<"exp", x>>
SqrtOf(x)      == <<"sqrt", x>>
(* a if x > y else b *)
IfGt(x, y, a, b) == <<"ifgt", x, y, a, b>>
Local(name, x) == <<"local", name, x>>
Store(key, x)  == <<"store", key, x>>

(* ---------------------------------------------------------------------- *)
(* The execution environment of one formula call                          *)
(* ---------------------------------------------------------------------- *)
(* s.E, s.zt, s.at: the arguments; s.L: the local variables assigned so   *)
(* far; s.params: the contents of the dict the formula fills; s.exc: the  *)
(* exception raised, "" while none was.                                   *)
NoLocals == [n \in {} |-> Zero]

Env(E, zt, at, params) ==
    [E |-> E, zt |-> zt, at |-> at, L |-> NoLocals, params |-> params, exc |-> ""]

(* params[key] as an expression: KeyError when the dict does not hold it. *)
GetItem(s, key) ==
    IF key \in DOMAIN s.params THEN s.params[key] ELSE Raise("KeyError")

(* The value of expression x in environment s, operands left to right. *)
RECURSIVE Eval(_, _)

(* a if l > r else b, for the expression x = IfGt(_, _, a, b). *)
Conditional(l, r, x, s) ==
    IF IsExc(l) THEN l
    ELSE IF IsExc(r) THEN r
    ELSE IF FGt(l, r) THEN Eval(x[4], s) ELSE Eval(x[5], s)

Eval(x, s) ==
    CASE x[1] = "lit"  -> x[2]
      [] x[1] = "arg"  -> IF x[2] = "E" THEN s.E
                          ELSE IF x[2] = "zt" THEN FromInt(s.zt) ELSE FromInt(s.at)
      [] x[1] = "var"  -> s.L[x[2]]
      [] x[1] = "item" -> GetItem(s, x[2])
      [] x[1] = "add"  -> FAdd(Eval(x[2], s), Eval(x[3], s))
      [] x[1] = "sub"  -> FSub(Eval(x[2], s), Eval(x[3], s))
      [] x[1] = "mul"  -> FMul(Eval(x[2], s), Eval(x[3], s))
      [] x[1] = "div"  -> FDiv(Eval(x[2], s), Eval(x[3], s))
      [] x[1] = "pow"  -> FPow(Eval(x[2], s), Eval(x[3], s))
      [] x[1] = "exp"  -> FExp(Eval(x[2], s))
      [] x[1] = "sqrt" -> FSqrt(Eval(x[2], s))
      [] x[1] = "ifgt" -> Conditional(Eval(x[2], s), Eval(x[3], s), x, s)

(* One statement: an exception raised while its expression is evaluated   *)
(* ends the call; params[key] = v adds the key when the dict lacks it.    *)
Assign(st, s, v) ==
    IF IsExc(v) THEN [s EXCEPT !.exc = v.x]
    ELSE IF st[1] = "local" THEN [s EXCEPT !.L = (st[2] :> v) @@ s.L]
    ELSE [s EXCEPT !.params = (st[2] :> v) @@ s.params]

Exec(st, s) == Assign(st, s, Eval(st[3], s))

(* ---------------------------------------------------------------------- *)
(* an_cai_potential                                                       *)
(* ---------------------------------------------------------------------- *)
an_cai_potential ==
    LET E  == Arg("E")
        zt == Arg("zt")
        at == Arg("at")
        a3 == Var("a3")
    IN  << Local("a3", Power(at, C(333, -3))),
           Store("V",
                 Add(Add(Sub(C(9185, -2), Mul(C(249, -3), E)),
                         Mul(C(1116, -7), Power(E, C(20, -1)))),
                     Div(Mul(C(642, -3), zt), a3))),
           Store("Vi", Add(C(1104, -3), Mul(C(622, -4), E))),
           Store("Vsi", Sub(C(1083, -2), Mul(C(306, -4), E))),
           Store("Vso", C(3557, -3)),
           Store("Vsoi", C(0, 0)),
           Store("r0", Sub(C(1152, -3), Div(C(776, -5), a3))),
           Store("ri0", Add(C(1305, -3), Div(C(997, -4), a3))),
           Store("rsi0", Add(C(1334, -3), Div(C(152, -3), a3))),
           Store("rso0", C(972, -3)),
           Store("rsoi0", C(0, 0)),
           Store("rc0", C(1303, -3)),
           Store("a", Add(C(719, -3), Mul(C(126, -4), a3))),
           Store("ai", Sub(C(855, -3), Mul(C(1, -1), a3))),
           Store("asi", Add(C(531, -3), Mul(C(62, -3), a3))),
           Store("aso", C(1011, -3)),
           Store("asoi", C(0, 0)) >>

(* ---------------------------------------------------------------------- *)
(* daehnick_potential                                                     *)
(* ---------------------------------------------------------------------- *)
(* math.exp(-1.0 * ((magic - nt) * 0.5) ** 2.0), one term of mu. *)
daehnick_mu_term(magic) ==
    ExpOf(Mul(C(-10, -1),
              Power(Mul(Sub(C(magic, 0), Var("nt")), C(5, -1)), C(20, -1))))

(* The square root taken of -E. *)
daehnick_ri0_negated ==
    Store("ri0", Sub(C(1376, -3), Mul(C(1, -2), SqrtOf(Sub(C(0, 0), Arg("E"))))))

(* params["ri0"] = 1.376 - 0.01 * math.sqrt(E) *)
daehnick_ri0 ==
    Store("ri0", Sub(C(1376, -3), Mul(C(1, -2), SqrtOf(Arg("E")))))

(* asoi copied from aso. *)
daehnick_asoi_from_aso == Store("asoi", Item("aso"))

(* params["asoi"] = 0.0 *)
daehnick_asoi == Store("asoi", C(0, 0))

daehnick_potential ==
    LET E    == Arg("E")
        zt   == Arg("zt")
        at   == Arg("at")
        a3   == Var("a3")
        beta == Var("beta")
        mu   == Var("mu")
    IN  << Local("nt", Sub(at, zt)),
           Local("a3", Power(at, C(333, -3))),
           Local("beta", Mul(C(-10, -1), Power(Mul(E, C(1, -2)), C(20, -1)))),
           Local("mu1", daehnick_mu_term(8)),
           Local("mu2", daehnick_mu_term(20)),
           Local("mu3", daehnick_mu_term(28)),
           Local("mu4", daehnick_mu_term(50)),
           Local("mu5", daehnick_mu_term(82)),
           Local("mu6", daehnick_mu_term(126)),
           Local("mu",
                 Add(Add(Add(Add(Add(Var("mu1"), Var("mu2")), Var("mu3")),
                             Var("mu4")), Var("mu5")), Var("mu6"))),
           Store("V",
                 Add(Sub(C(880, -1), Mul(C(283, -3), E)),
                     Div(Mul(C(88, -2), zt), a3))),
           Store("Vi",
                 Mul(Add(C(120, -1), Mul(C(31, -3), E)),
                     Sub(C(10, -1), ExpOf(beta)))),
           Store("Vsi", Mul(Add(C(120, -1), Mul(C(31, -3), E)), ExpOf(beta))),
           Store("Vso", Sub(C(72, -1), Mul(C(32, -3), E))),
           Store("Vsoi", C(0, 0)),
           Store("r0", C(117, -2)),
           daehnick_ri0,
           Store("rsi0", Sub(C(1376, -3), Mul(C(1, -2), SqrtOf(E)))),
           Store("rso0", C(107, -2)),
           Store("rsoi0", C(0, 0)),
           Store("rc0", C(13, -1)),
           Store("a", Add(C(717, -3), Mul(C(12, -4), E))),
           Store("ai", Sub(Add(C(52, -2), Mul(C(7, -2), a3)), Mul(C(4, -2), mu))),
           Store("asi", Sub(Add(C(52, -2), Mul(C(7, -2), a3)), Mul(C(4, -2), mu))),
           Store("aso", C(66, -2)),
           daehnick_asoi >>

(* The slope taken from 40 MeV, the threshold left at 45 MeV. *)
bojowald_Vi_from40 ==
    Store("Vi",
          IfGt(Arg("E"), C(450, -1),
               Mul(C(132, -3), Sub(Arg("E"), C(400, -1))),
               C(0, 0)))

(* ---------------------------------------------------------------------- *)
(* bojowald_potential                                                     *)
(* ---------------------------------------------------------------------- *)
(* params["Vi"] = 0.132 * (E - 45.0) if E > 45.0 else 0.0 *)
bojowald_Vi ==
    Store("Vi",
          IfGt(Arg("E"), C(450, -1),
               Mul(C(132, -3), Sub(Arg("E"), C(450, -1))),
               C(0, 0)))

(* Vsi computed from what the dict held under "Vsi". *)
bojowald_Vsi_from_Vsi ==
    Store("Vsi",
          Sub(Add(C(78, -1), Mul(C(104, -2), Var("a3"))),
              Mul(C(712, -3), Item("Vsi"))))

(* params["Vsi"] = 7.8 + 1.04 * a3 - 0.712 * params["Vi"] *)
bojowald_Vsi ==
    Store("Vsi",
          Sub(Add(C(78, -1), Mul(C(104, -2), Var("a3"))),
              Mul(C(712, -3), Item("Vi"))))

bojowald_potential ==
    LET E  == Arg("E")
        zt == Arg("zt")
        at == Arg("at")
        a3 == Var("a3")
    IN  << Local("a3", Power(at, C(333, -3))),
           Store("V",
                 Add(Sub(C(8133, -2), Mul(C(24, -2), E)),
                     Div(Mul(C(143, -2), zt), a3))),
           bojowald_Vi,
           bojowald_Vsi,
           Store("Vso", C(60, -1)),
           Store("Vsoi", C(0, 0)),
           Store("r0", C(118, -2)),
           Store("ri0", C(127, -2)),
           Store("rsi0", C(127, -2)),
           Store("rso0", Add(C(78, -2), Mul(C(38, -3), a3))),
           Store("rsoi0", C(0, 0)),
           Store("rc0", C(13, -1)),
           Store("a", Add(C(636, -3), Mul(C(35, -3), a3))),
           Store("ai", Add(C(768, -3), Mul(C(21, -3), a3))),
           Store("asi", Add(C(768, -3), Mul(C(21, -3), a3))),
           Store("aso", Add(C(78, -2), Mul(C(38, -3), a3))),
           Store("asoi", C(0, 0)) >>

(* rsoi0 = 0.0, as in the formulas without an imaginary spin-orbit term. *)
koning_delaroche_proton_rsoi0_zero == Store("rsoi0", C(0, 0))

(* ---------------------------------------------------------------------- *)
(* koning_delaroche_proton_potential                                      *)
(* ---------------------------------------------------------------------- *)
(* params["rsoi0"] = params["rso0"] *)
koning_delaroche_proton_rsoi0 == Store("rsoi0", Item("rso0"))

koning_delaroche_proton_potential ==
    LET E       == Arg("E")
        zt      == Arg("zt")
        at      == Arg("at")
        nt      == Var("nt")
        a3      == Var("a3")
        v1      == Var("v1")
        v2      == Var("v2")
        v3      == Var("v3")
        v4      == Var("v4")
        w1      == Var("w1")
        w2      == Var("w2")
        d1      == Var("d1")
        d2      == Var("d2")
        d3      == Var("d3")
        vso1    == Var("vso1")
        vso2    == Var("vso2")
        wso1    == Var("wso1")
        wso2    == Var("wso2")
        ef      == Var("ef")
        rc      == Var("rc")
        vc      == Var("vc")
        delta_e == Var("delta_e")
        de2     == Power(delta_e, C(20, -1))
        de3     == Power(delta_e, C(30, -1))
    IN  << Local("nt", Sub(at, zt)),
           Local("a3", Power(at, C(333, -3))),
           Local("v1",
                 Sub(Add(C(5930, -2), Div(Mul(C(210, -1), Sub(nt, zt)), at)),
                     Mul(C(24, -3), at))),
           Local("v2", Add(C(7067, -6), Mul(C(423, -8), at))),
           Local("v3", Add(C(1729, -8), Mul(C(1136, -11), at))),
           Local("v4", C(70, -10)),
           Local("w1", Add(C(14667, -3), Mul(C(9629, -6), at))),
           Local("w2", Add(C(7355, -2), Mul(C(795, -4), at))),
           Local("d1", Add(C(160, -1), Div(Mul(C(160, -1), Sub(nt, zt)), at))),
           Local("d2",
                 Add(C(180, -4),
                     Div(C(3802, -6),
                         Add(C(10, -1),
                             ExpOf(Div(Sub(at, C(1560, -1)), C(80, -1))))))),
           Local("d3", C(115, -1)),
           Local("vso1", Add(C(5922, -3), Mul(C(30, -4), at))),
           Local("vso2", C(40, -4)),
           Local("wso1", C(-31, -1)),
           Local("wso2", C(160, 0)),
           Local("ef", Add(C(-84075, -4), Mul(C(1378, -5), at))),
           Local("rc",
                 Add(Add(C(1198, -3), Mul(C(697, -3), Power(at, C(-666, -3)))),
                     Mul(C(12994, -3), Power(at, C(-1666, -3))))),
           Local("vc", Mul(Mul(Div(C(173, -2), rc), zt), a3)),
           Local("delta_e", Sub(E, ef)),
           Store("V",
                 Add(Mul(v1,
                         Sub(Add(Sub(C(10, -1), Mul(v2, delta_e)), Mul(v3, de2)),
                             Mul(v4, de3))),
                     Mul(Mul(vc, v1),
                         Add(Sub(v2, Mul(Mul(C(20, -1), v3), delta_e)),
                             Mul(Mul(C(30, -1), v4), de2))))),
           Store("Vi", Div(Mul(w1, de2), Add(de2, Power(w2, C(20, -1))))),
           Store("Vsi",
                 Mul(Div(Mul(d1, de2), Add(de2, Power(d3, C(20, -1)))),
                     ExpOf(Mul(Mul(C(-10, -1), d2), delta_e)))),
           Store("Vso", Mul(vso1, ExpOf(Mul(Mul(C(-10, -1), vso2), delta_e)))),
           Store("Vsoi", Div(Mul(wso1, de2), Add(de2, Power(wso2, C(20, -1))))),
           Store("r0", Sub(C(13039, -4), Div(C(4054, -4), a3))),
           Store("ri0", Item("r0")),
           Store("rsi0", Sub(C(13424, -4), Mul(C(1585, -5), a3))),
           Store("rso0", Sub(C(11854, -4), Div(C(647, -3), a3))),
           koning_delaroche_proton_rsoi0,
           Store("rc0", rc),
           Store("a", Sub(C(6778, -4), Mul(C(1487, -7), at))),
           Store("ai", Sub(C(6778, -4), Mul(C(1487, -7), at))),
           Store("asi", Add(C(5187, -4), Mul(C(5205, -7), at))),
           Store("aso", C(59, -2)),
           Store("asoi", C(59, -2)) >>

(* A spin-orbit depth that falls with the energy. *)
li_liang_cai_triton_Vso_of_E ==
    Store("Vso", Sub(C(19029, -4), Mul(C(1, -3), Arg("E"))))

(* ---------------------------------------------------------------------- *)
(* li_liang_cai_triton_potential                                          *)
(* ---------------------------------------------------------------------- *)
(* params["Vso"] = 1.9029 *)
li_liang_cai_triton_Vso == Store("Vso", C(19029, -4))

(* The Coulomb radius stored under a key the dict literal does not have. *)
li_liang_cai_triton_rc == Store("rc", C(1422, -3))

(* params["rc0"] = 1.422 *)
li_liang_cai_triton_rc0 == Store("rc0", C(1422, -3))

li_liang_cai_triton_potential ==
    LET E  == Arg("E")
        zt == Arg("zt")
        at == Arg("at")
        nt == Var("nt")
        a3 == Var("a3")
    IN  << Local("nt", Sub(at, zt)),
           Local("a3", Power(at, Div(C(10, -1), C(30, -1)))),
           Store("V",
                 Add(Add(Add(Sub(C(1376, -1), Mul(C(1456, -4), E)),
                             Mul(C(436, -4), Power(E, C(2, 0)))),
                         Div(Mul(C(43751, -4), Sub(nt, zt)), at)),
                     Div(Mul(C(10474, -4), zt), a3))),
           Store("r0", Sub(C(11201, -4), Div(C(1504, -4), a3))),
           Store("a", Add(C(6833, -4), Mul(C(191, -4), a3))),
           Store("Vi",
                 Sub(Add(C(7383, -3), Mul(C(5025, -4), E)),
                     Mul(C(97, -4), Power(E, C(2, 0))))),
           Store("ri0", Sub(C(13202, -4), Div(C(1776, -4), a3))),
           Store("ai", Add(C(1119, -3), Mul(C(1913, -5), a3))),
           Store("Vsi",
                 Sub(Sub(C(3706, -2), Mul(C(6451, -4), E)),
                     Div(Mul(C(4719, -2), Sub(nt, zt)), at))),
           Store("rsi0", Sub(C(1251, -3), Div(C(4622, -4), a3))),
           Store("asi", Add(C(8114, -4), Mul(C(1159, -5), a3))),
           li_liang_cai_triton_Vso,
           Store("rso0", Add(C(46991, -5), Div(C(1294, -4), a3))),
           Store("aso", Sub(C(3545, -4), Mul(C(522, -4), a3))),
           Store("Vsoi", C(0, 0)),
           Store("rsoi0", C(0, 0)),
           Store("asoi", C(0, 0)),
           li_liang_cai_triton_rc0 >>

(* ---------------------------------------------------------------------- *)
(* The keywords, the formulas by name, and a whole formula call           *)
(* ---------------------------------------------------------------------- *)
AN_CAI                  == "an-cai"
DAEHNICK                == "daehnick"
BOJOWALD                == "bojowald"
KONING_DELAROCHE_PROTON == "koning-delaroche-proton"
LI_LIANG_CAI_TRITON     == "li-liang-cai-triton"

(* The body of the function named fn. *)
Body(fn) ==
    CASE fn = "an_cai_potential"                  -> an_cai_potential
      [] fn = "daehnick_potential"                -> daehnick_potential
      [] fn = "bojowald_potential"                -> bojowald_potential
      [] fn = "koning_delaroche_proton_potential" -> koning_delaroche_proton_potential
      [] fn = "li_liang_cai_triton_potential"     -> li_liang_cai_triton_potential

Length(fn) == Len(Body(fn))

(* Statement i of the function named fn, in environment s. *)
Statement(fn, i, s) == Exec(Body(fn)[i], s)

(* The function named fn run from statement i to its end, or to the       *)
(* statement that raises.                                                 *)
RECURSIVE RunFrom(_, _, _)
RunFrom(fn, i, s) ==
    IF s.exc # "" \/ i > Length(fn) THEN s
    ELSE RunFrom(fn, i + 1, Statement(fn, i, s))

(* ---------------------------------------------------------------------- *)
(* Python's exception classes                                             *)
(* ---------------------------------------------------------------------- *)
(* The classes an instance of cls is an instance of: "except h" catches   *)
(* it exactly when h is one of them.                                      *)
Bases(cls) ==
    CASE cls = "Exception"         -> {"Exception", "BaseException"}
      [] cls = "ZeroDivisionError" -> {"ZeroDivisionError", "ArithmeticError",
                                       "Exception", "BaseException"}
      [] cls = "OverflowError"     -> {"OverflowError", "ArithmeticError",
                                       "Exception", "BaseException"}
      [] cls = "ValueError"        -> {"ValueError", "Exception", "BaseException"}
      [] cls = "TypeError"         -> {"TypeError", "Exception", "BaseException"}
      [] cls = "KeyError"          -> {"KeyError", "LookupError",
                                       "Exception", "BaseException"}
      [] OTHER                     -> {cls, "BaseException"}

(* ---------------------------------------------------------------------- *)
(* State                                                                  *)
(* ---------------------------------------------------------------------- *)
VARIABLES
    POTENTIALS,  \* the registry dict, as its (keyword, function) items in order
    heap,        \* the live dicts: object id -> contents
    th           \* per caller: the frame of its call, or the outcome it holds

vars == <<POTENTIALS, heap, th>>

(* The callers: threads of one process, which share POTENTIALS and the heap. *)
Threads == {"t1", "t2"}
Main    == "t1"

(* The sixteen keys of the dict literal of create_parameters. *)
ParamKeys ==
    {"V", "Vi", "Vsi", "Vso", "Vsoi", "r0", "ri0", "rsi0", "rso0", "rsoi0",
     "rc0", "a", "ai", "asi", "aso", "asoi"}

(* params = {"V": 0.0, ..., "asoi": 0.0} *)
ZeroParams == [k \in ParamKeys |-> Zero]

(* The module-level dict POTENTIALS. *)
Registry ==
    << <<AN_CAI, "an_cai_potential">>,
       <<DAEHNICK, "daehnick_potential">>,
       <<BOJOWALD, "bojowald_potential">>,
       <<KONING_DELAROCHE_PROTON, "koning_delaroche_proton_potential">>,
       <<LI_LIANG_CAI_TRITON, "li_liang_cai_triton_potential">> >>

(* d.keys(), key in d.keys(), d[key] *)
Keys(d)        == [j \in 1..Len(d) |-> d[j][1]]
HasKey(d, key) == \E j \in 1..Len(d) : d[j][1] = key
Lookup(d, key) == d[CHOOSE j \in 1..Len(d) : d[j][1] = key][2]

Idle ==
    [pc |-> "idle", via |-> "", potential |-> "", E |-> Zero, zt |-> 0, at |-> 0,
     ref |-> 0, fn |-> "", i |-> 0, L |-> NoLocals, exc |-> "",
     msg |-> [potential |-> "", keys |-> <<>>]]

(* The frame of create_parameters(E, zt, at, potential). *)
Frame(E, zt, at, potential) ==
    [Idle EXCEPT !.pc = "check", !.via = "create_parameters",
                 !.potential = potential, !.E = E, !.zt = zt, !.at = at]

(* The message without the registry's keys. *)
MessageWithoutKeys(potential, d) == [potential |-> potential, keys |-> <<>>]

(* f"Potential {potential} is not in the set of allowed Potentials        *)
(* {POTENTIALS.keys()}!": the two values the text is formatted from.      *)
Message(potential, d) == [potential |-> potential, keys |-> Keys(d)]

(* ---------------------------------------------------------------------- *)
(* The steps of create_parameters on c = [f |-> frame, h |-> heap]        *)
(* ---------------------------------------------------------------------- *)
(* if potential not in POTENTIALS.keys(): raise Exception(...) *)
DoCheck(c) ==
    IF ~HasKey(POTENTIALS, c.f.potential)
    THEN [c EXCEPT !.f.pc = "raised", !.f.exc = "Exception",
                   !.f.msg = Message(c.f.potential, POTENTIALS)]
    ELSE [c EXCEPT !.f.pc = "alloc"]

(* An object id no live dict has: the lowest free one. *)
Fresh(h) ==
    CHOOSE r \in 1..(Cardinality(DOMAIN h) + 1) :
        /\ r \notin DOMAIN h
        /\ \A q \in 1..(r - 1) : q \in DOMAIN h

(* One dict object that every call reuses once it exists. *)
SharedDict(h, contents) ==
    [ref |-> 1, h |-> IF 1 \in DOMAIN h THEN h ELSE (1 :> contents) @@ h]

(* The dict literal: a new dict object, which no other call refers to. *)
NewDict(h, contents) == [ref |-> Fresh(h), h |-> (Fresh(h) :> contents) @@ h]

(* params = {...} *)
Bind(f, n) == [f |-> [f EXCEPT !.ref = n.ref, !.pc = "call"], h |-> n.h]

DoAlloc(c) == Bind(c.f, NewDict(c.h, ZeroParams))

(* POTENTIALS[potential](E, zt, at, params): the lookup and the call. *)
DoDispatch(c) ==
    [c EXCEPT !.f.fn = Lookup(POTENTIALS, c.f.potential), !.f.i = 1, !.f.pc = "body"]

(* The call after a statement that left environment s: the exception    *)
(* propagates, or the locals and the dict are as the statement left them. *)
Proceed(c, s) ==
    IF s.exc # ""
    THEN [c EXCEPT !.f.pc = "raised", !.f.exc = s.exc, !.f.L = NoLocals, !.f.i = 0]
    ELSE [f |-> [c.f EXCEPT !.L = s.L, !.i = c.f.i + 1],
          h |-> [c.h EXCEPT ![c.f.ref] = s.params]]

(* The statement reads an energy offset by a value kept outside the call: *)
(* the number of dicts that were live when its own was allocated.         *)
DoStatementWithOffset(c) ==
    Proceed(c, Statement(c.f.fn, c.f.i,
                         [E |-> FAdd(c.f.E, FromInt(c.f.ref - 1)),
                          zt |-> c.f.zt, at |-> c.f.at, L |-> c.f.L,
                          params |-> c.h[c.f.ref], exc |-> ""]))

(* The next statement of the formula, on the dict params refers to. *)
DoStatement(c) ==
    Proceed(c, Statement(c.f.fn, c.f.i,
                         [E |-> c.f.E, zt |-> c.f.zt, at |-> c.f.at, L |-> c.f.L,
                          params |-> c.h[c.f.ref], exc |-> ""]))

(* The formula returns None; return params. *)
DoReturn(c) == [c EXCEPT !.f.pc = "returned", !.f.L = NoLocals, !.f.i = 0]

Finished(f) == f.pc \in {"returned", "raised"}

DoStep(c) ==
    CASE c.f.pc = "check" -> DoCheck(c)
      [] c.f.pc = "alloc" -> DoAlloc(c)
      [] c.f.pc = "call"  -> DoDispatch(c)
      [] c.f.pc = "body"  -> IF c.f.i <= Length(c.f.fn) THEN DoStatement(c)
                             ELSE DoReturn(c)

(* A call run to its end without interruption. *)
RECURSIVE Run(_)
Run(c) == IF Finished(c.f) THEN c ELSE Run(DoStep(c))

(* create_parameters(E, zt, at, potential) on heap h. *)
create_parameters(E, zt, at, potential, h) ==
    Run([f |-> Frame(E, zt, at, potential), h |-> h])

(* fn(E, zt, at, params) called directly, params a dict of the caller's    *)
(* with the contents given.                                               *)
DirectFrame(fn, E, zt, at, n) ==
    [f |-> [Idle EXCEPT !.pc = "body", !.via = "direct", !.fn = fn, !.i = 1,
                        !.E = E, !.zt = zt, !.at = at, !.ref = n.ref],
     h |-> n.h]

direct_call(fn, E, zt, at, given, h) ==
    Run(DirectFrame(fn, E, zt, at, NewDict(h, given)))

(* The heap once caller t drops what it holds: a dict no frame refers to   *)
(* any more is freed.                                                     *)
Drop(t) ==
    LET kept == {th[u].ref : u \in Threads \ {t}}
    IN  [o \in {r \in DOMAIN heap : r \in kept} |-> heap[o]]

(* ---------------------------------------------------------------------- *)
(* The arguments the callers pass                                         *)
(* ---------------------------------------------------------------------- *)
Energies ==
    {D(-10, 0), Zero, D(30, 0), D(45, 0), D(455, -1), D(50, 0), D(100, 0),
     D(1, 200), Inf(1), NaN}

(* <<zt, at>> *)
Targets == {<<0, 0>>, <<6, 12>>, <<20, 40>>, <<28, 58>>}

Registered == {AN_CAI, DAEHNICK, BOJOWALD, KONING_DELAROCHE_PROTON, LI_LIANG_CAI_TRITON}
Identifiers == Registered \cup {"unknown-potential", "An-Cai"}

Formulas == {Registry[j][2] : j \in 1..Len(Registry)}

(* The dicts a caller hands to a formula it calls directly. *)
GivenDicts ==
    {ZeroParams, [k \in ParamKeys |-> D(75, -1)], NoLocals,
     [k \in {"Vi", "r0", "rso0", "Vsi"} |-> D(-3, 0)]}

(* The arguments of the calls that run concurrently. *)
ThreadEnergies == {D(50, 0)}
ThreadTargets  == {<<0, 0>>, <<6, 12>>}
ThreadIdentifiers == Registered \cup {"unknown-potential"}

(* ---------------------------------------------------------------------- *)
(* Calls one after the other, each run to its end                         *)
(* ---------------------------------------------------------------------- *)
Init ==
    /\ POTENTIALS = Registry
    /\ heap = [o \in {} |-> ZeroParams]
    /\ th = [t \in Threads |-> Idle]

(* Caller t is left with frame c.f, the heap is c.h. *)
Becomes(t, c) ==
    /\ th' = [th EXCEPT ![t] = c.f]
    /\ heap' = c.h

Call(t) ==
    /\ th[t].pc = "idle"
    /\ \E E \in Energies, za \in Targets, potential \in Identifiers :
          Becomes(t, create_parameters(E, za[1], za[2], potential, heap))
    /\ UNCHANGED POTENTIALS

CallFormula(t) ==
    /\ th[t].pc = "idle"
    /\ \E fn \in Formulas, E \in Energies, za \in Targets, given \in GivenDicts :
          Becomes(t, direct_call(fn, E, za[1], za[2], given, heap))
    /\ UNCHANGED POTENTIALS

(* The caller drops the dict it was returned, or handles the exception. *)
Release(t) ==
    /\ Finished(th[t])
    /\ th' = [th EXCEPT ![t] = Idle]
    /\ heap' = Drop(t)
    /\ UNCHANGED POTENTIALS

Next == Call(Main) \/ CallFormula(Main) \/ Release(Main)

Spec == Init /\ [][Next]_vars

(* ---------------------------------------------------------------------- *)
(* Concurrent calls of create_parameters, interleaved statement by        *)
(* statement                                                              *)
(* ---------------------------------------------------------------------- *)
Act(t, c) ==
    /\ Becomes(t, c)
    /\ UNCHANGED POTENTIALS

Invoke(t) ==
    /\ th[t].pc = "idle"
    /\ \E E \in ThreadEnergies, za \in ThreadTargets, potential \in ThreadIdentifiers :
          th' = [th EXCEPT ![t] = Frame(E, za[1], za[2], potential)]
    /\ UNCHANGED <<POTENTIALS, heap>>

Check(t) ==
    /\ th[t].pc = "check"
    /\ Act(t, DoCheck([f |-> th[t], h |-> heap]))

Allocate(t) ==
    /\ th[t].pc = "alloc"
    /\ Act(t, DoAlloc([f |-> th[t], h |-> heap]))

Dispatch(t) ==
    /\ th[t].pc = "call"
    /\ Act(t, DoDispatch([f |-> th[t], h |-> heap]))

Execute(t) ==
    /\ th[t].pc = "body"
    /\ th[t].i <= Length(th[t].fn)
    /\ Act(t, DoStatement([f |-> th[t], h |-> heap]))

Return(t) ==
    /\ th[t].pc = "body"
    /\ th[t].i > Length(th[t].fn)
    /\ Act(t, DoReturn([f |-> th[t], h |-> heap]))

NextThreads ==
    \E t \in Threads :
        \/ Invoke(t)
        \/ Check(t)
        \/ Allocate(t)
        \/ Dispatch(t)
        \/ Execute(t)
        \/ Return(t)
        \/ Release(t)

SpecThreads == Init /\ [][NextThreads]_vars

(* ---------------------------------------------------------------------- *)
(* What a caller holds                                                    *)
(* ---------------------------------------------------------------------- *)
Returned(t) == th[t].pc = "returned"
Raised(t)   == th[t].pc = "raised"
Created(t)  == th[t].via = "create_parameters"
Direct(t)   == th[t].via = "direct"
Result(t)   == heap[th[t].ref]

(* The dict a finished call c returned. *)
Out(c) == c.h[c.f.ref]

NoHeap == [o \in {} |-> ZeroParams]

(* ---------------------------------------------------------------------- *)
(* C1: for each registered identifier and every (E, zt, at), the dict     *)
(* returned by create_parameters has exactly the sixteen keys of the dict *)
(* literal: none is missing and no formula adds a seventeenth.            *)
(* ---------------------------------------------------------------------- *)
C1_ExactlySixteenKeys ==
    \A t \in Threads :
        (Returned(t) /\ Created(t)) =>
            /\ th[t].potential \in Registered
            /\ DOMAIN Result(t) = ParamKeys
            /\ Cardinality(DOMAIN Result(t)) = 16

C1_Witness ==
    /\ Returned(Main) /\ Created(Main)
    /\ th[Main].potential = LI_LIANG_CAI_TRITON
    /\ th[Main].at = 58
    /\ Result(Main)["rc0"] = D(1422, -3)

(* ---------------------------------------------------------------------- *)
(* C2 as stated: the error raised for an unregistered identifier is of a  *)
(* kind that tells it from the other failures of create_parameters: some  *)
(* class catches it and does not catch an error raised by a formula.      *)
(* ---------------------------------------------------------------------- *)
C2_DistinguishableKind ==
    \A t \in Threads, u \in Threads :
        ( /\ Raised(t) /\ Created(t) /\ th[t].potential \notin Registered
          /\ Raised(u) /\ Created(u) /\ th[u].potential \in Registered )
        => \E cls \in Bases(th[t].exc) : cls \notin Bases(th[u].exc)

(* ---------------------------------------------------------------------- *)
(* C2: for every unregistered identifier create_parameters raises a plain *)
(* Exception whose message names the identifier and the five registered   *)
(* keywords, before any dict is allocated and before any formula runs.    *)
(* ---------------------------------------------------------------------- *)
C2_UnknownRejected ==
    \A t \in Threads :
        (Created(t) /\ th[t].potential \notin Registered /\ th[t].pc # "check") =>
            /\ Raised(t)
            /\ th[t].exc = "Exception"
            /\ th[t].msg.potential = th[t].potential
            /\ th[t].msg.keys = <<AN_CAI, DAEHNICK, BOJOWALD, KONING_DELAROCHE_PROTON,
                                  LI_LIANG_CAI_TRITON>>
            /\ th[t].ref = 0
            /\ th[t].fn = ""
            /\ \A r \in DOMAIN heap : \E u \in Threads \ {t} : th[u].ref = r

C2_Witness ==
    /\ Raised("t1") /\ Created("t1")
    /\ th["t1"].potential = "unknown-potential"
    /\ th["t2"].pc = "body"
    /\ th["t2"].i = 5

OrdinaryEnergy(E) ==
    \/ E.k = "num" /\ E.m >= 0 /\ ~FGt(E, D(100, 0))
    \/ E = Inf(1)
    \/ E.k = "nan"

(* An energy of -100 to 0 MeV. *)
NegativeEnergy(E) == E.k = "num" /\ E.m < 0 /\ ~FGt(D(-100, 0), E)

IsolatedOut(f) == Out(create_parameters(f.E, f.zt, f.at, f.potential, NoHeap))

(* What one step leaves of the registry and of the dicts the calls hold. *)
C4_Step ==
    /\ POTENTIALS' = POTENTIALS
    /\ POTENTIALS' = Registry
    /\ \A t \in Threads, u \in Threads :
          (t # u /\ th'[t].ref # 0) => th'[t].ref # th'[u].ref
    /\ \A t \in Threads :
          (th'[t].pc = "returned" /\ th'[t].via = "create_parameters") =>
              IF Returned(t)
              THEN th'[t].ref = th[t].ref /\ heap'[th'[t].ref] = Result(t)
              ELSE heap'[th'[t].ref] = IsolatedOut(th'[t])

(* ---------------------------------------------------------------------- *)
(* C4: no call changes the registry or a dict another call returned:      *)
(* under every interleaving each step leaves POTENTIALS with its five     *)
(* items, no two calls refer to the same dict, a call returns what the    *)
(* same call returns when run alone, and a returned dict is unchanged for *)
(* as long as its caller holds it.                                        *)
(* ---------------------------------------------------------------------- *)
C4_NoSharedMutation == [][C4_Step]_vars

C4_Witness ==
    /\ Returned("t1") /\ Created("t1")
    /\ th["t1"].potential = BOJOWALD
    /\ th["t2"].pc = "body"
    /\ th["t2"].fn = "koning_delaroche_proton_potential"
    /\ th["t2"].i = 30
    /\ Result("t1")["Vi"] = D(66, -2)

(* ---------------------------------------------------------------------- *)
(* C5: two calls with the same identifier and the same (E, zt, at) return *)
(* the same sixteen values, whatever other calls ran before or between    *)
(* them.                                                                  *)
(* ---------------------------------------------------------------------- *)
C5_Deterministic ==
    \A t \in Threads, u \in Threads :
        ( /\ Returned(t) /\ Returned(u)
          /\ th[t].potential = th[u].potential
          /\ th[t].E = th[u].E /\ th[t].zt = th[u].zt /\ th[t].at = th[u].at )
        => Result(t) = Result(u)

C5_Witness ==
    /\ Returned("t1") /\ Returned("t2")
    /\ th["t1"].ref # th["t2"].ref
    /\ th["t1"].potential = AN_CAI /\ th["t2"].potential = AN_CAI
    /\ th["t1"].at = 12 /\ th["t2"].at = 12
    /\ Result("t1") = Result("t2")

(* ---------------------------------------------------------------------- *)
(* C6: for "bojowald" Vi is 0.0 for every E <= 45, E = 45 included, and   *)
(* 0.132 * (E - 45), which is positive, for every E > 45; Vsi is          *)
(* 7.8 + 1.04 * a3 - 0.712 * Vi for the Vi returned.                      *)
(* ---------------------------------------------------------------------- *)
C6_BojowaldThreshold ==
    \A t \in Threads :
        (Returned(t) /\ Created(t) /\ th[t].potential = BOJOWALD) =>
            /\ (th[t].E.k \in {"num", "inf"} /\ ~FGt(th[t].E, D(45, 0)))
               => Result(t)["Vi"] = Zero
            /\ FGt(th[t].E, D(45, 0))
               => /\ Result(t)["Vi"] = FMul(D(132, -3), FSub(th[t].E, D(45, 0)))
                  /\ FGt(Result(t)["Vi"], Zero)
            /\ Result(t)["Vsi"] =
                   FSub(FAdd(D(78, -1),
                             FMul(D(104, -2), FPow(FromInt(th[t].at), D(333, -3)))),
                        FMul(D(712, -3), Result(t)["Vi"]))

C6_Witness ==
    /\ Returned(Main) /\ Created(Main)
    /\ th[Main].potential = BOJOWALD
    /\ th[Main].E = D(455, -1)
    /\ th[Main].at = 12
    /\ Result(Main)["Vi"] = D(66, -3)

(* The radius and diffuseness parameters. *)
GeometryKeys ==
    {"r0", "ri0", "rsi0", "rso0", "rsoi0", "rc0", "a", "ai", "asi", "aso", "asoi"}

(* Dict d and the dict call c returned, if it returned one, agree on keys. *)
AgreeOn(keys, d, c) ==
    c.f.pc = "returned" => \A key \in keys : Out(c)[key] = d[key]

(* ---------------------------------------------------------------------- *)
(* C7: for "koning-delaroche-proton" the returned rso0 equals rsoi0 and   *)
(* ri0 equals r0, and a call that differs only in E returns the same      *)
(* eleven radius and diffuseness parameters.                              *)
(* ---------------------------------------------------------------------- *)
C7_KoningGeometry ==
    \A t \in Threads :
        (Returned(t) /\ Created(t) /\ th[t].potential = KONING_DELAROCHE_PROTON) =>
            /\ Result(t)["rso0"] = Result(t)["rsoi0"]
            /\ Result(t)["ri0"] = Result(t)["r0"]
            /\ \A E \in Energies :
                  AgreeOn(GeometryKeys, Result(t),
                          create_parameters(E, th[t].zt, th[t].at, th[t].potential, NoHeap))

C7_Witness ==
    /\ Returned(Main) /\ Created(Main)
    /\ th[Main].potential = KONING_DELAROCHE_PROTON
    /\ th[Main].E = D(50, 0)
    /\ th[Main].at = 58
    /\ Result(Main)["rsoi0"] # Zero
    /\ Result(Main)["ri0"] # Zero

(* ---------------------------------------------------------------------- *)
(* C8: "an-cai", "daehnick", "bojowald" and "li-liang-cai-triton" return  *)
(* Vsoi, rsoi0 and asoi, each equal to 0.0.                               *)
(* ---------------------------------------------------------------------- *)
C8_NoImaginarySpinOrbit ==
    \A t \in Threads :
        ( /\ Returned(t) /\ Created(t)
          /\ th[t].potential \in {AN_CAI, DAEHNICK, BOJOWALD, LI_LIANG_CAI_TRITON} )
        => \A key \in {"Vsoi", "rsoi0", "asoi"} :
               key \in DOMAIN Result(t) /\ Result(t)[key] = Zero

C8_Witness ==
    /\ Returned(Main) /\ Created(Main)
    /\ th[Main].potential = DAEHNICK
    /\ th[Main].at = 40
    /\ Result(Main)["aso"] # Zero
    /\ Result(Main)["asoi"] = Zero

(* ---------------------------------------------------------------------- *)
(* C9 as stated: for "li-liang-cai-triton" Vso, rso0 and aso take the     *)
(* same value for every (E, zt, at), the value returned for (50, 6, 12),  *)
(* and Vsoi is 0.                                                         *)
(* ---------------------------------------------------------------------- *)
C9_SpinOrbitConstant ==
    \A t \in Threads :
        (Returned(t) /\ Created(t) /\ th[t].potential = LI_LIANG_CAI_TRITON) =>
            /\ AgreeOn({"Vso", "rso0", "aso"}, Result(t),
                       create_parameters(D(50, 0), 6, 12, LI_LIANG_CAI_TRITON, NoHeap))
            /\ Result(t)["Vsoi"] = Zero

(* ---------------------------------------------------------------------- *)
(* C9: for "li-liang-cai-triton" Vso is 1.9029 for every (E, zt, at) and  *)
(* Vsoi is 0; rso0 is 0.46991 + 0.1294 / a3 and aso is                    *)
(* 0.3545 - 0.0522 * a3 for a3 = at ** (1/3), which change with at and    *)
(* with neither E nor zt.                                                 *)
(* ---------------------------------------------------------------------- *)
C9_SpinOrbitOfMass ==
    \A t \in Threads :
        (Returned(t) /\ Created(t) /\ th[t].potential = LI_LIANG_CAI_TRITON) =>
            /\ Result(t)["Vso"] = D(19029, -4)
            /\ Result(t)["Vsoi"] = Zero
            /\ Result(t)["rso0"] =
                   FAdd(D(46991, -5),
                        FDiv(D(1294, -4), FPow(FromInt(th[t].at), FDiv(One, D(3, 0)))))
            /\ Result(t)["aso"] =
                   FSub(D(3545, -4),
                        FMul(D(522, -4), FPow(FromInt(th[t].at), FDiv(One, D(3, 0)))))
            /\ \A E \in Energies, za \in Targets :
                  AgreeOn({"Vso", "rso0", "aso"}, Result(t),
                          create_parameters(E, za[1], th[t].at, th[t].potential, NoHeap))

C9_Witness ==
    /\ Returned(Main) /\ Created(Main)
    /\ th[Main].potential = LI_LIANG_CAI_TRITON
    /\ th[Main].at = 40
    /\ Result(Main)["rso0"] #
           Out(create_parameters(D(50, 0), 6, 12, LI_LIANG_CAI_TRITON, NoHeap))["rso0"]

(* ---------------------------------------------------------------------- *)
(* C10: a formula called on a dict of any contents, when it completes,    *)
(* leaves the sixteen keys holding what it leaves in the zero-filled dict *)
(* of create_parameters: it assigns every key, and reads none before it   *)
(* assigns it.                                                            *)
(* ---------------------------------------------------------------------- *)
C10_AssignsEveryKey ==
    \A t \in Threads :
        (Returned(t) /\ Direct(t)) =>
            /\ DOMAIN Result(t) = ParamKeys
            /\ Result(t) = Out(direct_call(th[t].fn, th[t].E, th[t].zt, th[t].at,
                                           ZeroParams, NoHeap))

C10_Witness ==
    /\ Returned(Main) /\ Direct(Main)
    /\ th[Main].fn = "koning_delaroche_proton_potential"
    /\ th[Main].at = 58
    /\ Result(Main)["Vsi"] # D(75, -1)
    /\ \E given \in GivenDicts :
          /\ given # ZeroParams
          /\ DOMAIN given = ParamKeys
          /\ Result(Main) = Out(direct_call(th[Main].fn, th[Main].E, th[Main].zt,
                                            th[Main].at, given, NoHeap))
====
